---- MODULE Spec2Model ----
(***************************************************************************)
(* Model of matlab-ai-agent: the controller (src/src/agent.py), the        *)
(* generation interface (src/src/llm.py), the engine interface             *)
(* (src/src/engine.py), the interactive session (src/src/cli.py) and the   *)
(* error learner (src/src/utils/error_learner.py).                         *)
(*                                                                         *)
(* Text is a sequence of tokens.  A token is either one character (" " is  *)
(* a space, "\n" a newline, Backtick a backtick, a letter is itself) or an *)
(* atomic piece of text that contains no whitespace at its ends and no     *)
(* newline (a word, a canonical rule, the section header).                 *)
(***************************************************************************)
EXTENDS Integers, Sequences, FiniteSets, TLC

(* ---------------------------------------------------------------------- *)
(* Bounds                                                                  *)
(* ---------------------------------------------------------------------- *)
MaxLearn == 2        \* learn_from_error calls explored per behaviour
MaxCalls == 2        \* generate / fix invocations explored per behaviour
MaxTurns == 2        \* add_message calls explored per behaviour

(* ---------------------------------------------------------------------- *)
(* Text helpers (Python str methods used by the source)                    *)
(* ---------------------------------------------------------------------- *)
IsWs(c) == c \in {" ", "\n"}

RECURSIVE LStrip(_)
LStrip(t) == IF t # <<>> /\ IsWs(Head(t)) THEN LStrip(Tail(t)) ELSE t

RECURSIVE RStrip(_)
RStrip(t) ==
    IF t # <<>> /\ IsWs(t[Len(t)]) THEN RStrip(SubSeq(t, 1, Len(t) - 1)) ELSE t

\* str.strip()
Strip(t) == RStrip(LStrip(t))

\* str.startswith / str.endswith
StartsWith(t, p) == Len(t) >= Len(p) /\ SubSeq(t, 1, Len(p)) = p
EndsWith(t, p) == Len(t) >= Len(p) /\ SubSeq(t, Len(t) - Len(p) + 1, Len(t)) = p

\* t[k:] and t[:-k]
DropFirst(t, k) == IF k >= Len(t) THEN <<>> ELSE SubSeq(t, k + 1, Len(t))
DropLast(t, k) == IF k >= Len(t) THEN <<>> ELSE SubSeq(t, 1, Len(t) - k)

\* first index >= from at which p occurs in t, 0 when there is none
RECURSIVE FindSub(_, _, _)
FindSub(t, p, from) ==
    IF from + Len(p) - 1 > Len(t) THEN 0
    ELSE IF SubSeq(t, from, from + Len(p) - 1) = p THEN from
    ELSE FindSub(t, p, from + 1)

\* str.split(sep)
RECURSIVE Split(_, _)
Split(t, sep) ==
    LET i == FindSub(t, sep, 1)
    IN IF i = 0 THEN <<t>>
       ELSE <<SubSeq(t, 1, i - 1)>> \o Split(DropFirst(t, i + Len(sep) - 1), sep)

\* sep.join(parts)
RECURSIVE Join(_, _)
Join(parts, sep) ==
    IF parts = <<>> THEN <<>>
    ELSE IF Len(parts) = 1 THEN parts[1]
    ELSE parts[1] \o sep \o Join(Tail(parts), sep)

\* x in list
InList(x, list) == \E i \in 1..Len(list) : list[i] = x

\* number of occurrences of x in list
RECURSIVE Count(_, _)
Count(x, list) ==
    IF list = <<>> THEN 0
    ELSE (IF Head(list) = x THEN 1 ELSE 0) + Count(x, Tail(list))

NoDuplicates(list) == \A i, j \in 1..Len(list) : list[i] = list[j] => i = j

(* ---------------------------------------------------------------------- *)
(* Error learner: src/src/utils/error_learner.py                           *)
(* ---------------------------------------------------------------------- *)
\* the literal header matched by the patterns of lines 48 and 57
Header == "8. ERROR PREVENTION:"
Indent == <<" ", " ", " ", " ">>
RuleSep == <<"\n">> \o Indent

\* str.lower() on a token
Lower(tok) ==
    CASE tok = "Index" -> "index"
      [] tok = "Undefined" -> "undefined"
      [] tok = "Assert" -> "assert"
      [] tok = "BOUNDS" -> "bounds"
      [] tok = "Syntax" -> "syntax"
      [] OTHER -> tok

LowerText(t) == [i \in 1..Len(t) |-> Lower(t[i])]

\* kw in text, kw a sequence of tokens
Contains(t, kw) == FindSub(t, kw, 1) # 0

\* the categories in the order of the tests of lines 126-135
NamedCategories ==
    <<"array_bounds", "dimension_mismatch", "type_error", "undefined_variable",
      "syntax_error">>

\* the test made for one category on the text m, lines 126-135
Matches(category, m) ==
    CASE category = "array_bounds" ->
             Contains(m, <<"index">>)
             /\ (Contains(m, <<"exceeds">>) \/ Contains(m, <<"bounds">>))
      [] category = "dimension_mismatch" ->
             Contains(m, <<"dimension">>) \/ Contains(m, <<"size">>)
      [] category = "type_error" ->
             Contains(m, <<"type">>) \/ Contains(m, <<"class">>)
      [] category = "undefined_variable" ->
             Contains(m, <<"undefined">>) \/ Contains(m, <<"not", " ", "found">>)
      [] category = "syntax_error" -> Contains(m, <<"syntax">>)
      [] OTHER -> FALSE

\* the first category of order whose test m passes, default when none does
FirstMatch(m, order, default) ==
    LET hits == {i \in 1..Len(order) : Matches(order[i], m)}
    IN IF hits = {} THEN default
       ELSE order[CHOOSE i \in hits : \A j \in hits : i <= j]

\* _classify_error without the final else
ClassifyErrorNoDefault(error_message) ==
    FirstMatch(LowerText(error_message), NamedCategories, "unknown")

\* _classify_error without the lower() of line 124
ClassifyErrorCaseSensitive(error_message) ==
    FirstMatch(error_message, NamedCategories, "other")

\* _classify_error testing undefined/not found before type/class
ClassifyErrorUndefinedFirst(error_message) ==
    FirstMatch(LowerText(error_message),
               <<"array_bounds", "dimension_mismatch", "undefined_variable",
                 "type_error", "syntax_error">>, "other")

\* _classify_error
ClassifyError(error_message) ==
    LET m == LowerText(error_message)
    IN IF Contains(m, <<"index">>)
          /\ (Contains(m, <<"exceeds">>) \/ Contains(m, <<"bounds">>))
       THEN "array_bounds"
       ELSE IF Contains(m, <<"dimension">>) \/ Contains(m, <<"size">>)
       THEN "dimension_mismatch"
       ELSE IF Contains(m, <<"type">>) \/ Contains(m, <<"class">>)
       THEN "type_error"
       ELSE IF Contains(m, <<"undefined">>) \/ Contains(m, <<"not", " ", "found">>)
       THEN "undefined_variable"
       ELSE IF Contains(m, <<"syntax">>)
       THEN "syntax_error"
       ELSE "other"

RuleArrayBounds ==
    <<"Always validate array indices against array dimensions using size() or length() before indexing operations to prevent 'Index exceeds array bounds' errors.">>
RuleDimensionMismatch ==
    <<"Verify matrix dimensions match before operations using size() and assert() to prevent dimension mismatch errors.">>
RuleTypeError ==
    <<"Validate variable types using isa() or class() before operations to ensure type compatibility.">>
RuleUndefinedVariable ==
    <<"Check for variable existence using exist() before using variables to prevent 'Undefined variable' errors.">>
RuleSyntaxError ==
    <<"Validate MATLAB syntax using mlint() before execution to catch syntax errors early.">>
\* the f-string prefix of line 157; it ends with a space
AssertRulePrefix ==
    <<"Add appropriate assert() statements to validate conditions that caused:", " ">>

\* Python's None for an optional text; line 90 (`if not new_rule`) does not
\* tell it from the empty text
None == <<>>

\* _generate_prevention_rule with the raw message put into every rule, as
\* line 157 does for the assert rule
GeneratePreventionRuleFromMessage(error_info) ==
    LET error_type == error_info.error_type
        error_message == error_info.error_message
    IN CASE error_type = "array_bounds" -> RuleArrayBounds \o error_message
         [] error_type = "dimension_mismatch" -> RuleDimensionMismatch \o error_message
         [] error_type = "type_error" -> RuleTypeError \o error_message
         [] error_type = "undefined_variable" -> RuleUndefinedVariable \o error_message
         [] error_type = "syntax_error" -> RuleSyntaxError \o error_message
         [] OTHER -> IF Contains(error_message, <<"assert">>)
                     THEN AssertRulePrefix \o error_message
                     ELSE None

\* _generate_prevention_rule
GeneratePreventionRule(error_info) ==
    LET error_type == error_info.error_type
        error_message == error_info.error_message
    IN CASE error_type = "array_bounds" -> RuleArrayBounds
         [] error_type = "dimension_mismatch" -> RuleDimensionMismatch
         [] error_type = "type_error" -> RuleTypeError
         [] error_type = "undefined_variable" -> RuleUndefinedVariable
         [] error_type = "syntax_error" -> RuleSyntaxError
         [] OTHER -> IF Contains(error_message, <<"assert">>)
                     THEN AssertRulePrefix \o error_message
                     ELSE None

\* position of the first Header token at or after from, 0 when there is none
RECURSIVE HeaderPos(_, _)
HeaderPos(prompt, from) ==
    IF from > Len(prompt) THEN 0
    ELSE IF prompt[from] = Header THEN from
    ELSE HeaderPos(prompt, from + 1)

\* end of the lazy match .*? with lookahead (?=\n\n|\Z): the first position
\* k >= from that is followed by a blank line or is the end of the text
RECURSIVE SectionEnd(_, _)
SectionEnd(prompt, from) ==
    IF from > Len(prompt) THEN Len(prompt) + 1
    ELSE IF from < Len(prompt) /\ prompt[from] = "\n" /\ prompt[from + 1] = "\n"
    THEN from
    ELSE SectionEnd(prompt, from + 1)

\* _extract_error_prevention_section: re.search, group(1).strip()
ExtractErrorPreventionSection(prompt) ==
    LET i == HeaderPos(prompt, 1)
    IN IF i = 0 THEN <<>>
       ELSE Strip(SubSeq(prompt, i + 1, SectionEnd(prompt, i + 1) - 1))

\* re.sub(pattern, "", prompt): every match removed, left to right
RECURSIVE RemoveSections(_)
RemoveSections(prompt) ==
    LET i == HeaderPos(prompt, 1)
    IN IF i = 0 THEN prompt
       ELSE SubSeq(prompt, 1, i - 1)
            \o RemoveSections(DropFirst(prompt, SectionEnd(prompt, i + 1) - 1))

\* _update_error_prevention_section that puts the rebuilt section in front of
\* the remaining text
UpdateErrorPreventionSectionInFront(prompt, new_rules) ==
    LET prompt_without_section == Strip(RemoveSections(prompt))
        new_section == <<Header>> \o RuleSep \o Join(new_rules, RuleSep)
    IN new_section \o <<"\n", "\n">> \o prompt_without_section \o <<"\n">>

\* _update_error_prevention_section
UpdateErrorPreventionSection(prompt, new_rules) ==
    LET prompt_without_section == Strip(RemoveSections(prompt))
        new_section == <<Header>> \o RuleSep \o Join(new_rules, RuleSep)
    IN prompt_without_section \o <<"\n", "\n">> \o new_section \o <<"\n">>

\* lines 98-99: split on "\n    ", strip each rule, drop the empty ones
RECURSIVE StripNonEmpty(_)
StripNonEmpty(parts) ==
    IF parts = <<>> THEN <<>>
    ELSE (IF Strip(Head(parts)) # <<>> THEN <<Strip(Head(parts))>> ELSE <<>>)
         \o StripNonEmpty(Tail(parts))

\* the rules read back as if the section held none
CurrentRulesNone(prompt) == <<>>

CurrentRules(prompt) ==
    StripNonEmpty(Split(ExtractErrorPreventionSection(prompt), RuleSep))

\* lines 101-106: the document after merging new_rule, unchanged when the
\* rule is already among the current rules
MergeRule(prompt, new_rule) ==
    LET current_rules == CurrentRules(prompt)
    IN IF ~InList(new_rule, current_rules)
       THEN UpdateErrorPreventionSection(prompt, Append(current_rules, new_rule))
       ELSE prompt

(* ---------------------------------------------------------------------- *)
(* Generation interface: src/src/llm.py                                    *)
(* ---------------------------------------------------------------------- *)
\* one backtick character
Backtick == "BACKTICK"
Fence == <<Backtick, Backtick, Backtick>>
FenceMatlab == Fence \o <<"m", "a", "t", "l", "a", "b">>

\* _clean_code
CleanCode(code) ==
    LET opened == IF StartsWith(code, FenceMatlab) THEN DropFirst(code, 10)
                  ELSE IF StartsWith(code, Fence) THEN DropFirst(code, 3)
                  ELSE code
        closed == IF EndsWith(opened, Fence) THEN DropLast(opened, 3) ELSE opened
    IN Strip(closed)

\* outcome of client.chat.completions.create: it raises, or it answers
ApiRaises == [raises |-> TRUE, content |-> <<>>]
ApiAnswers(content) == [raises |-> FALSE, content |-> content]

ErrorGeneratingCode == <<"% Error generating code: {e}">>

\* the values a call passes to progress_callback: none when no callback is
\* given (the `if progress_callback:` guards)
Reported(progress_callback, values) == IF progress_callback THEN values ELSE <<>>

\* generate_code: the checkpoints of lines 92-140
GenerateProgress(api) ==
    IF api.raises THEN <<10, 20, 30, 100>> ELSE <<10, 20, 30, 70, 90, 100>>

\* fix_code: the checkpoints of lines 163-226
FixProgress(api) ==
    IF api.raises THEN <<10, 30, 40, 100>> ELSE <<10, 30, 40, 80, 100>>

\* generate_code: the text it returns under the collaborator outcome api
LlmGenerateCode(api) ==
    IF api.raises THEN ErrorGeneratingCode
    ELSE CleanCode(Strip(api.content))

\* fix_code: the text it returns under the collaborator outcome api
LlmFixCode(code, error_messages, api) ==
    IF api.raises THEN code
    ELSE CleanCode(Strip(api.content))

(* ---------------------------------------------------------------------- *)
(* Engine interface: src/src/engine.py                                     *)
(* ---------------------------------------------------------------------- *)
EngineNotAvailable == <<"MATLAB Engine not available.">>
NoCodeToValidate == <<"No code to validate.">>
NoIssuesFound == <<"No issues found.">>
ErrorDuringValidation == <<"Error during validation: {e}">>

\* line 109: f"[Line {msg.line}] {msg.message}"
FormatFinding(msg) == <<"[Line", " ", msg.line, "]", " ">> \o msg.message

FormatFindings(messages) == [i \in 1..Len(messages) |-> FormatFinding(messages[i])]

\* outcome of eng.checkcode: it raises, or it returns messages
CheckRaises == [raises |-> TRUE, messages |-> <<>>]
CheckReturns(messages) == [raises |-> FALSE, messages |-> messages]

\* validate_code answering the checker's empty report with an empty list
ValidateCodeEmptyReport(available, code, check) ==
    IF ~available THEN <<EngineNotAvailable>>
    ELSE IF code = <<>> THEN <<NoCodeToValidate>>
    ELSE IF check.raises THEN <<ErrorDuringValidation>>
    ELSE FormatFindings(check.messages)

\* validate_code on an engine whose availability is available
ValidateCode(available, code, check) ==
    IF ~available THEN <<EngineNotAvailable>>
    ELSE IF code = <<>> THEN <<NoCodeToValidate>>
    ELSE IF check.raises THEN <<ErrorDuringValidation>>
    ELSE IF check.messages = <<>> THEN <<NoIssuesFound>>
    ELSE FormatFindings(check.messages)

\* outcome of one execute_code run: an exception e raised at a stage
\* ("makedirs": os.makedirs of line 180, "open": writing the script at lines
\* 190-191, "eval": eng.eval at lines 226-228), or the value of error_msg
RunRaisesAt(stage, e) == [raises |-> TRUE, stage |-> stage, error_msg |-> e]
RunRaises(e) == RunRaisesAt("eval", e)
RunEnds(error_msg) == [raises |-> FALSE, stage |-> "done", error_msg |-> error_msg]
\* no run was made
NoRun == [raises |-> FALSE, stage |-> "none", error_msg |-> <<>>]

\* execute_code gets past its guards of lines 149 and 158
Runs(available, code) == available /\ code # <<>>

\* execute_code raises to its caller: line 180 stands before the try of
\* line 189
ExecuteRaises(available, code, run) ==
    Runs(available, code) /\ run.stage = "makedirs"

\* execute_code reporting 0 from the handler of lines 263-265
ExecuteProgressFailureZero(available, code, run) ==
    IF ~(available /\ code # <<>>) THEN <<5, 100>>
    ELSE IF run.stage = "makedirs" THEN <<5, 10>>
    ELSE IF run.stage = "open" THEN <<5, 10, 15, 0>>
    ELSE IF run.stage = "eval" THEN <<5, 10, 15, 20, 0>>
    ELSE <<5, 10, 15, 20, 70, 80, 100>>

\* execute_code: the checkpoints of lines 146-265
ExecuteProgress(available, code, run) ==
    IF ~Runs(available, code) THEN <<5, 100>>
    ELSE IF run.stage = "makedirs" THEN <<5, 10>>
    ELSE IF run.stage = "open" THEN <<5, 10, 15, 100>>
    ELSE IF run.stage = "eval" THEN <<5, 10, 15, 20, 100>>
    ELSE <<5, 10, 15, 20, 70, 80, 100>>

\* execute_code: the methods of the engine handle it calls
ExecuteEngCalls(available, code, run) ==
    IF ~Runs(available, code) \/ run.stage \in {"makedirs", "open"} THEN <<>>
    ELSE IF run.stage = "eval" THEN <<"eval">>
    ELSE <<"eval", "eval">>

\* validate_code: the methods of the engine handle it calls
ValidateEngCalls(available, code) ==
    IF Runs(available, code) THEN <<"checkcode">> ELSE <<>>

\* execute_code without the guard of lines 149-156
ExecuteCodeNoGuard(available, code, run) ==
    IF code = <<>>
    THEN <<<<"No code to execute.">>,
           [success |-> FALSE, error |-> <<"No code provided.">>]>>
    ELSE IF run.raises
    THEN <<<<"Error:", " ">> \o run.error_msg,
           [script_executed |-> "sim_script", success |-> FALSE,
            error |-> run.error_msg]>>
    ELSE IF run.error_msg = <<>>
    THEN <<<<"Simulation executed successfully.">>,
           [script_executed |-> "sim_script", success |-> TRUE,
            error |-> None]>>
    ELSE <<<<"Simulation failed:", " ">> \o run.error_msg,
           [script_executed |-> "sim_script", success |-> FALSE,
            error |-> run.error_msg]>>

\* execute_code whose handler of lines 263-272 leaves the error text out
ExecuteCodeErrorDropped(available, code, run) ==
    IF ~available
    THEN <<EngineNotAvailable,
           [success |-> FALSE, error |-> EngineNotAvailable]>>
    ELSE IF code = <<>>
    THEN <<<<"No code to execute.">>,
           [success |-> FALSE, error |-> <<"No code provided.">>]>>
    ELSE IF run.raises
    THEN <<<<"Error:", " ">> \o run.error_msg,
           [script_executed |-> "sim_script", success |-> FALSE]>>
    ELSE IF run.error_msg = <<>>
    THEN <<<<"Simulation executed successfully.">>,
           [script_executed |-> "sim_script", success |-> TRUE,
            error |-> None]>>
    ELSE <<<<"Simulation failed:", " ">> \o run.error_msg,
           [script_executed |-> "sim_script", success |-> FALSE,
            error |-> run.error_msg]>>

\* execute_code: the pair (message, result) it returns, when it returns
ExecuteCode(available, code, run) ==
    IF ~available
    THEN <<EngineNotAvailable,
           [success |-> FALSE, error |-> EngineNotAvailable]>>
    ELSE IF code = <<>>
    THEN <<<<"No code to execute.">>,
           [success |-> FALSE, error |-> <<"No code provided.">>]>>
    ELSE IF run.raises
    THEN <<<<"Error:", " ">> \o run.error_msg,
           [script_executed |-> "sim_script", success |-> FALSE,
            error |-> run.error_msg]>>
    ELSE IF run.error_msg = <<>>
    THEN <<<<"Simulation executed successfully.">>,
           [script_executed |-> "sim_script", success |-> TRUE,
            error |-> None]>>
    ELSE <<<<"Simulation failed:", " ">> \o run.error_msg,
           [script_executed |-> "sim_script", success |-> FALSE,
            error |-> run.error_msg]>>

\* dict.get(key, default)
Get(dict, key, default) == IF key \in DOMAIN dict THEN dict[key] ELSE default

(* ---------------------------------------------------------------------- *)
(* Files                                                                   *)
(* ---------------------------------------------------------------------- *)
NoFile == [exists |-> FALSE]
File(content) == [exists |-> TRUE, content |-> content]

\* generate_prompt: the default document, one token per authored block
DefaultPrompt ==
    <<"\n", "MATLAB simulation expert. STRICT RULES:", "\n", "\n",
      "1. STRUCTS: ...", "\n", "\n",
      "2. TOOLBOX AVOIDANCE: ...", "\n", "\n",
      "3. VALIDATION PROTOCOLS: ...", "\n", "\n",
      "4. ODE SAFETY: ...", "\n", "\n",
      "5. MEMORY/CODE: ...", "\n", "\n",
      "6. TOOLBOX CHECKS: ...", "\n", "\n",
      "7. ENTRYPOINT EXECUTION: ...", "\n", "\n",
      Header, "\n", " ", " ", " ", " ",
      "Validate input size and type rigorously ...", "\n", " ", " ", " ", " ",
      "Avoid using arrayfun on matrices ...", "\n", " ", " ", " ", " ",
      "Encapsulate complex conditional logic ...", "\n", " ", " ", " ", " ",
      "Implement automated input validation tests ...", "\n", " ", " ", " ", " ",
      "Always pre-check inputs for dimensionality ...", "\n", "\n",
      "NO EXPLANATIONS. CODE ONLY. ENGLISH COMMENTS. ALL CHECKS MANDATORY.", "\n">>

\* a hand-written document that has no ERROR PREVENTION section
PromptWithoutSection ==
    <<"MATLAB simulation expert.", "\n", "\n", "1. STRUCTS: ...", "\n">>

\* a document whose last section is the ERROR PREVENTION section
PromptSectionLast ==
    <<"MATLAB simulation expert.", "\n", "\n", Header>> \o RuleSep
    \o RuleTypeError \o <<"\n">>

InitialPromptFiles ==
    {NoFile, File(DefaultPrompt), File(PromptWithoutSection), File(PromptSectionLast)}

(* ---------------------------------------------------------------------- *)
(* Inputs                                                                  *)
(* ---------------------------------------------------------------------- *)
FindingUndefined ==
    [line |-> "10", message |-> <<"Undefined", " ", "function", " ", "foo">>]
FindingUnused ==
    [line |-> "3", message |-> <<"Value", " ", "is", " ", "unused">>]
MsgUndefined == FormatFinding(FindingUndefined)
MsgIndex == <<"Index", " ", "exceeds", " ", "matrix", " ", "dimension", "s">>
MsgAssert == <<"assert", " ", "failed">>
MsgAssertTrailing == <<"assert", " ", "failed", " ">>
MsgAssertCapital == <<"Assert", "ion", " ", "failed">>
MsgAssertTwoLines == <<"assert", " ", "failed", "\n", "at", " ", "line", " ", "3">>
MsgOther == <<"Out", " ", "of", " ", "memory">>
\* messages that hold keywords of several categories
MsgIndexBounds ==
    <<"Undefined", " ", "size", ":", " ", "Index", " ", "out", " ", "of", " ", "BOUNDS">>
MsgUndefinedType ==
    <<"Undefined", " ", "function", " ", "foo", " ", "for", " ", "type", " ", "double">>

MsgIndexOnly == <<"Undefined", " ", "index">>
MsgDimensionClass == <<"dimension", "s", " ", "of", " ", "class", " ", "double">>
MsgNotFoundSyntax == <<"Syntax", " ", "file", " ", "not", " ", "found">>
MsgSyntax == <<"Syntax", " ", "error">>

\* messages given to the classifier and the synthesizer
ClassifierMessages ==
    {MsgUndefined, MsgIndex, MsgIndexBounds, MsgIndexOnly, MsgDimensionClass,
     MsgUndefinedType, MsgNotFoundSyntax, MsgSyntax, MsgAssert, MsgOther}

ErrorMessages ==
    {MsgUndefined, MsgIndex, MsgAssert, MsgAssertTrailing, MsgAssertCapital,
     MsgAssertTwoLines}

CodeX == <<"x">>
CodeY == <<"y">>
Codes == {CodeX, CodeY}
CodePairs == {<<CodeX, CodeY>>}
ClassifierCodePairs == {<<CodeX, CodeY>>, <<CodeY, CodeY>>}

\* outcome of the file system during one learn_from_error call
IoOutcomes ==
    {"ok", "prompt_read_fails", "prompt_write_fails", "history_write_fails"}

\* outcome of reading an existing error_history.json: open and json.load
\* succeed, or one of them raises
ReadOutcomes == {"ok", "fails"}

\* what the generation collaborator may do on one call
ResponsePlain == <<"y">>
ResponseFenced ==
    FenceMatlab \o <<"\n", "x", "\n">> \o Fence
ResponseFenceOnly == FenceMatlab \o <<"\n">> \o Fence
ResponseEmpty == <<>>
\* the code xy fenced on one line, as in ```x = 10;```
ResponseFencedInline == FenceMatlab \o <<"x", "y">> \o Fence
ApiOutcomes ==
    {ApiRaises, ApiAnswers(ResponsePlain), ApiAnswers(ResponseFenced),
     ApiAnswers(ResponseFenceOnly), ApiAnswers(ResponseEmpty),
     ApiAnswers(ResponseFencedInline)}

\* what the checker may do on one call
CheckOutcomes ==
    {CheckRaises, CheckReturns(<<>>), CheckReturns(<<FindingUndefined>>),
     CheckReturns(<<FindingUndefined, FindingUnused, FindingUndefined>>)}

\* what the engine may do on one run
RunOutcomes ==
    {RunRaisesAt("makedirs", MsgOther), RunRaisesAt("open", MsgOther),
     RunRaises(MsgOther), RunEnds(<<>>), RunEnds(MsgIndex)}

\* error lists a caller may pass to fix_code_with_llm
ErrorLists == {<<>>, <<MsgIndex>>, <<NoIssuesFound>>, <<MsgUndefined, MsgOther>>}

UserPrompts == {<<"pendulum">>}

VARIABLES
    conversation_history,  \* MatlabAIAgent.conversation_history
    matlab_code,           \* MatlabAIAgent.matlab_code, the CodeArtifact
    mlint_results,         \* MatlabAIAgent.mlint_results
    simulation_results,    \* MatlabAIAgent.simulation_results
    is_available,          \* MatlabEngine.is_available
    quit_calls,            \* number of eng.quit() calls made
    api_calls,             \* collaborator calls made, per kind of request
    invocations,           \* generate_matlab_code / fix_code_with_llm calls made
    last_call,             \* the last controller operation: its arguments and result
    last_api,              \* the last collaborator call: its system message, whether it raised, the
                           \* text it answered and what generate_code / fix_code
                           \* returned for it
    pc,                    \* position of the interactive session
    matlab,                \* the --matlab / --no-matlab option
    echoed,                \* what the session echoed last
    confirmed,             \* the last answer given to click.confirm
    saved_file,            \* the file written by the save action
    prompt_file,     \* the file .matlab_ai_prompt
    history_file,    \* the file error_history.json
    error_history,   \* ErrorLearner.error_history
    clock,           \* datetime.now()
    learn_calls,     \* number of learn_from_error calls made
    learn_ret,       \* what the last learn_from_error call returned
    last_io,         \* the file operation outcome that call met: "none" when
                     \* it wrote nothing and no operation failed
    created,         \* every ErrorRecord created so far, over all sessions
    system_message,  \* LLMInterface.system_message
    raised,          \* whether the last operation raised to its caller
    progress,        \* the values the last generate / fix / execute call
                     \* passed to its progress_callback
    eng_calls,       \* the engine handle methods the last validate / execute
                     \* call invoked
    last_run         \* what the engine did in the last validate or execute call

learnerVars ==
    <<prompt_file, history_file, error_history, clock, learn_calls, learn_ret,
      last_io, created, system_message>>

agentVars ==
    <<conversation_history, matlab_code, mlint_results, simulation_results>>
engineVars == <<is_available, quit_calls>>
callVars == <<api_calls, invocations, last_call, last_api>>
sessionVars == <<pc, matlab, echoed, confirmed, saved_file>>
traceVars == <<raised, progress, eng_calls, last_run>>

vars == <<agentVars, engineVars, callVars, sessionVars, learnerVars, traceVars>>

\* _load_error_history on a store that does not exist
EmptyHistory == [errors |-> <<>>, last_update |-> None]

InitLearner ==
    /\ prompt_file \in InitialPromptFiles
    /\ history_file = NoFile
    /\ error_history = EmptyHistory
    /\ clock = 0
    /\ learn_calls = 0
    /\ learn_ret = FALSE
    /\ last_io = "none"
    /\ created = <<>>

\* the record of lines 76-82 with the two code fields exchanged
ErrorInfoSwapped(timestamp, error_message, fixed_code, original_code) ==
    [timestamp |-> timestamp,
     error_message |-> error_message,
     error_type |-> ClassifyError(error_message),
     original_code |-> fixed_code,
     fixed_code |-> original_code]

\* the record built at lines 76-82
ErrorInfo(timestamp, error_message, fixed_code, original_code) ==
    [timestamp |-> timestamp,
     error_message |-> error_message,
     error_type |-> ClassifyError(error_message),
     original_code |-> original_code,
     fixed_code |-> fixed_code]

\* learn_from_error without the handler of lines 116-118: the exception
\* leaves the call
PropagateUpdateError ==
    /\ raised' = TRUE
    /\ learn_ret' = learn_ret

\* the handler of lines 116-118: an exception raised in the try block of
\* lines 93-114 is printed and the call returns False
CatchUpdateError ==
    /\ raised' = FALSE
    /\ learn_ret' = FALSE

\* learn_from_error(error_message, fixed_code, original_code) under the
\* file-system outcome io
LearnFromError(error_message, fixed_code, original_code, io) ==
    LET error_info ==
            ErrorInfo(clock + 1, error_message, fixed_code, original_code)
        history == [errors |-> Append(error_history.errors, error_info),
                    last_update |-> <<clock + 2>>]
        new_rule == GeneratePreventionRule(error_info)
        updated_prompt == MergeRule(prompt_file.content, new_rule)
    IN /\ learn_calls < MaxLearn
       /\ learn_calls' = learn_calls + 1
       /\ UNCHANGED system_message
       /\ created' = Append(created, error_info)
       /\ clock' = clock + 2
       /\ error_history' = history
       /\ IF new_rule = None
          THEN \* line 91
               /\ raised' = FALSE
               /\ learn_ret' = FALSE
               /\ last_io' = "none"
               /\ UNCHANGED <<prompt_file, history_file>>
          ELSE IF ~prompt_file.exists
          THEN \* _load_prompt raises, line 118
               /\ CatchUpdateError
               /\ last_io' = "none"
               /\ UNCHANGED <<prompt_file, history_file>>
          ELSE IF io = "prompt_read_fails"
          THEN \* open or read raises in _load_prompt, line 118
               /\ CatchUpdateError
               /\ last_io' = io
               /\ UNCHANGED <<prompt_file, history_file>>
          ELSE IF InList(new_rule, CurrentRules(prompt_file.content))
          THEN \* line 120
               /\ raised' = FALSE
               /\ learn_ret' = FALSE
               /\ last_io' = "none"
               /\ UNCHANGED <<prompt_file, history_file>>
          ELSE IF io = "prompt_write_fails"
          THEN \* _save_prompt raises, line 118
               /\ CatchUpdateError
               /\ last_io' = io
               /\ UNCHANGED <<prompt_file, history_file>>
          ELSE IF io = "history_write_fails"
          THEN \* _save_error_history raises after _save_prompt, line 118
               /\ prompt_file' = File(updated_prompt)
               /\ CatchUpdateError
               /\ last_io' = io
               /\ UNCHANGED history_file
          ELSE \* line 114
               /\ prompt_file' = File(updated_prompt)
               /\ history_file' = File(history)
               /\ raised' = FALSE
               /\ learn_ret' = TRUE
               /\ last_io' = io

\* _load_error_history that takes an unreadable store for an empty one
LoadErrorHistoryLenient(file, read) ==
    IF file.exists /\ read = "ok"
    THEN [raises |-> FALSE, value |-> file.content]
    ELSE [raises |-> FALSE, value |-> EmptyHistory]

\* _load_error_history under the read outcome: the value it returns, or that
\* the exception of line 25 or 26 leaves it
LoadErrorHistory(file, read) ==
    IF ~file.exists THEN [raises |-> FALSE, value |-> EmptyHistory]
    ELSE IF read = "ok" THEN [raises |-> FALSE, value |-> file.content]
    ELSE [raises |-> TRUE, value |-> EmptyHistory]

\* _load_system_prompt that generates the default document in every case
LoadSystemPromptRegenerate ==
    /\ prompt_file' = File(DefaultPrompt)
    /\ system_message' = DefaultPrompt

\* LLMInterface._load_system_prompt: an existing file is read, a missing one
\* is generated by generate_prompt() and then read
LoadSystemPrompt ==
    IF prompt_file.exists
    THEN /\ system_message' = prompt_file.content
         /\ UNCHANGED prompt_file
    ELSE /\ prompt_file' = File(DefaultPrompt)
         /\ system_message' = DefaultPrompt

(* ---------------------------------------------------------------------- *)
(* Controller: src/src/agent.py                                            *)
(* ---------------------------------------------------------------------- *)
\* MatlabAIAgent.__init__ with the engine available or not
InitController(available) ==
    /\ conversation_history = <<>>
    /\ matlab_code = <<>>
    /\ mlint_results = <<>>
    /\ simulation_results = <<>>
    /\ is_available = available
    /\ quit_calls = 0
    /\ api_calls = [generate |-> 0, fix |-> 0]
    /\ invocations = 0
    /\ last_call = [op |-> "init", args |-> <<>>, ret |-> <<>>]
    /\ last_api = [raised |-> FALSE, content |-> <<>>, returned |-> <<>>,
                   system |-> None]
    /\ raised = FALSE
    /\ progress = <<>>
    /\ eng_calls = <<>>
    /\ last_run = NoRun

Turn(role, content) == [role |-> role, content |-> content]

\* add_message putting the turn in front of the conversation
WithMessageInFront(history, role, content) == <<Turn(role, content)>> \o history

\* add_message: the conversation after it
WithMessage(history, role, content) == Append(history, Turn(role, content))

\* generate_matlab_code sending the PromptDocument as it is at the request
GenerateMatlabCodeRereadsPrompt(prompt, progress_callback, api) ==
    /\ matlab_code' = LlmGenerateCode(api)
    /\ raised' = FALSE
    /\ progress' = Reported(progress_callback, GenerateProgress(api))
    /\ eng_calls' = <<>>
    /\ last_run' = NoRun
    /\ api_calls' = [api_calls EXCEPT !.generate = @ + 1]
    /\ last_api' = [raised |-> api.raises, content |-> api.content,
                    returned |-> LlmGenerateCode(api),
                    system |-> prompt_file.content]
    /\ invocations' = invocations + 1
    /\ last_call' = [op |-> "generate", args |-> prompt, ret |-> matlab_code']

\* generate_matlab_code under the collaborator outcome api; the request's
\* system message is self.system_message, llm.py line 95
GenerateMatlabCode(prompt, progress_callback, api) ==
    /\ matlab_code' = LlmGenerateCode(api)
    /\ raised' = FALSE
    /\ progress' = Reported(progress_callback, GenerateProgress(api))
    /\ eng_calls' = <<>>
    /\ last_run' = NoRun
    /\ api_calls' = [api_calls EXCEPT !.generate = @ + 1]
    /\ last_api' = [raised |-> api.raises, content |-> api.content,
                    returned |-> LlmGenerateCode(api),
                    system |-> system_message]
    /\ invocations' = invocations + 1
    /\ last_call' = [op |-> "generate", args |-> prompt, ret |-> matlab_code']

\* validate_with_mlint under the checker outcome check
ValidateWithMlint(check) ==
    /\ mlint_results' = ValidateCode(is_available, matlab_code, check)
    /\ raised' = FALSE
    /\ progress' = <<>>
    /\ eng_calls' = ValidateEngCalls(is_available, matlab_code)
    /\ last_run' = IF Runs(is_available, matlab_code)
                   THEN [raises |-> check.raises, stage |-> "checkcode",
                         error_msg |-> <<>>, messages |-> check.messages]
                   ELSE NoRun
    /\ last_call' = [op |-> "validate", args |-> <<>>, ret |-> mlint_results']

\* execute_simulation under the engine outcome run: an exception of
\* execute_code passes through line 156, no result being assigned
ExecuteSimulation(progress_callback, run) ==
    LET executed == ExecuteCode(is_available, matlab_code, run)
    IN /\ raised' = ExecuteRaises(is_available, matlab_code, run)
       /\ progress' = Reported(progress_callback,
                               ExecuteProgress(is_available, matlab_code, run))
       /\ eng_calls' = ExecuteEngCalls(is_available, matlab_code, run)
       /\ last_run' = IF Runs(is_available, matlab_code) THEN run ELSE NoRun
       /\ IF ExecuteRaises(is_available, matlab_code, run)
          THEN /\ UNCHANGED simulation_results
               /\ last_call' = [op |-> "execute", args |-> <<>>, ret |-> <<>>]
          ELSE /\ simulation_results' = executed[2]
               /\ last_call' = [op |-> "execute", args |-> <<>>,
                                ret |-> executed[1]]

\* fix_code_with_llm without the early return of lines 184-186
FixCodeWithLlmNoEarlyReturn(error_messages, progress_callback, api) ==
    /\ invocations' = invocations + 1
    /\ raised' = FALSE
    /\ eng_calls' = <<>>
    /\ last_run' = NoRun
    /\ progress' = Reported(progress_callback, FixProgress(api))
    /\ matlab_code' = LlmFixCode(matlab_code, error_messages, api)
    /\ api_calls' = [api_calls EXCEPT !.fix = @ + 1]
    /\ last_api' = [raised |-> api.raises, content |-> api.content,
                    returned |-> LlmFixCode(matlab_code, error_messages, api),
                    system |-> <<"You are an expert MATLAB programmer ...">>]
    /\ last_call' = [op |-> "fix", args |-> error_messages, ret |-> matlab_code']

\* fix_code_with_llm under the collaborator outcome api
FixCodeWithLlm(error_messages, progress_callback, api) ==
    /\ invocations' = invocations + 1
    /\ raised' = FALSE
    /\ eng_calls' = <<>>
    /\ last_run' = NoRun
    /\ IF error_messages = <<>>
       THEN /\ last_call' = [op |-> "fix", args |-> error_messages,
                             ret |-> matlab_code]
            /\ progress' = <<>>
            /\ UNCHANGED <<matlab_code, api_calls, last_api>>
       ELSE /\ matlab_code' = LlmFixCode(matlab_code, error_messages, api)
            /\ progress' = Reported(progress_callback, FixProgress(api))
            /\ api_calls' = [api_calls EXCEPT !.fix = @ + 1]
            /\ last_api' = [raised |-> api.raises, content |-> api.content,
                            returned |-> LlmFixCode(matlab_code, error_messages, api),
                            system |-> <<"You are an expert MATLAB programmer ...">>]
            /\ last_call' = [op |-> "fix", args |-> error_messages,
                             ret |-> matlab_code']

\* MatlabEngine.shutdown
Shutdown ==
    /\ quit_calls' = IF is_available THEN quit_calls + 1 ELSE quit_calls
    /\ UNCHANGED is_available

(* The controller called directly, in any order *)
InitAgent ==
    /\ \E available \in BOOLEAN : InitController(available)
    /\ pc = "api"
    /\ matlab = is_available
    /\ echoed = "none"
    /\ confirmed = FALSE
    /\ saved_file = NoFile
    /\ InitLearner
    /\ prompt_file = File(DefaultPrompt)
    /\ system_message = DefaultPrompt

CallAddMessage ==
    /\ Len(conversation_history) < MaxTurns
    /\ LET turn == IF Len(conversation_history) % 2 = 0
                   THEN Turn("user", <<"pendulum">>)
                   ELSE Turn("assistant", CodeX)
       IN conversation_history' =
              WithMessage(conversation_history, turn.role, turn.content)
    /\ last_call' = [op |-> "add_message", args |-> <<>>, ret |-> <<>>]
    /\ raised' = FALSE
    /\ progress' = <<>>
    /\ eng_calls' = <<>>
    /\ last_run' = NoRun
    /\ UNCHANGED <<matlab_code, mlint_results, simulation_results, engineVars,
                   api_calls, invocations, last_api, sessionVars, learnerVars>>

\* generate_matlab_code that also records the generated code as a turn
CallGenerateAddsMessage ==
    /\ invocations < MaxCalls
    /\ \E prompt \in UserPrompts, progress_callback \in BOOLEAN,
          api \in ApiOutcomes :
           /\ GenerateMatlabCode(prompt, progress_callback, api)
           /\ conversation_history' =
                  WithMessage(conversation_history, "assistant", matlab_code')
    /\ UNCHANGED <<mlint_results, simulation_results,
                   engineVars, sessionVars, learnerVars>>

CallGenerate ==
    /\ invocations < MaxCalls
    /\ \E prompt \in UserPrompts, progress_callback \in BOOLEAN,
          api \in ApiOutcomes :
           GenerateMatlabCode(prompt, progress_callback, api)
    /\ UNCHANGED <<conversation_history, mlint_results, simulation_results,
                   engineVars, sessionVars, learnerVars>>

CallValidate ==
    /\ \E check \in CheckOutcomes : ValidateWithMlint(check)
    /\ UNCHANGED <<conversation_history, matlab_code, simulation_results,
                   engineVars, api_calls, invocations, last_api, sessionVars,
                   learnerVars>>

CallExecute ==
    /\ \E progress_callback \in BOOLEAN, run \in RunOutcomes :
           ExecuteSimulation(progress_callback, run)
    /\ UNCHANGED <<conversation_history, matlab_code, mlint_results,
                   engineVars, api_calls, invocations, last_api, sessionVars,
                   learnerVars>>

CallFix ==
    /\ invocations < MaxCalls
    /\ \E error_messages \in ErrorLists, progress_callback \in BOOLEAN,
          api \in ApiOutcomes :
           FixCodeWithLlm(error_messages, progress_callback, api)
    /\ UNCHANGED <<conversation_history, mlint_results, simulation_results,
                   engineVars, sessionVars, learnerVars>>

NextAgent == CallAddMessage \/ CallGenerate \/ CallValidate \/ CallExecute \/ CallFix

SpecAgent == InitAgent /\ [][NextAgent]_vars

(* The controller and its engine called directly on code read from a file,
   the engine being shut down at any moment *)
\* agent.matlab_code = f.read(), cli.py line 299
LoadCode ==
    /\ \E code \in Codes : matlab_code' = code
    /\ last_call' = [op |-> "load_code", args |-> <<>>, ret |-> <<>>]
    /\ raised' = FALSE
    /\ progress' = <<>>
    /\ eng_calls' = <<>>
    /\ last_run' = NoRun
    /\ UNCHANGED <<conversation_history, mlint_results, simulation_results,
                   engineVars, api_calls, invocations, last_api, sessionVars,
                   learnerVars>>

\* agent.matlab.shutdown()
CallShutdown ==
    /\ quit_calls < MaxCalls
    /\ Shutdown
    /\ last_call' = [op |-> "shutdown", args |-> <<>>, ret |-> <<>>]
    /\ raised' = FALSE
    /\ progress' = <<>>
    /\ eng_calls' = <<>>
    /\ last_run' = NoRun
    /\ UNCHANGED <<agentVars, api_calls, invocations, last_api, sessionVars,
                   learnerVars>>

NextEngine == LoadCode \/ CallValidate \/ CallExecute \/ CallShutdown

SpecEngine == InitAgent /\ [][NextEngine]_vars

(* ---------------------------------------------------------------------- *)
(* Interactive session: src/src/cli.py, interactive                        *)
(* ---------------------------------------------------------------------- *)
CodeBlock(code) ==
    Fence \o <<"m", "a", "t", "l", "a", "b", "\n">> \o code \o <<"\n">> \o Fence

\* lines 125-128 and 232-235
GeneratedReply(code) == <<"Generated MATLAB code:", "\n", "\n">> \o CodeBlock(code)
UpdatedReply(code) == <<"Updated MATLAB code:", "\n", "\n">> \o CodeBlock(code)

\* line 226
ModifyRequest(improvement) == <<"Modify the code to:", " ">> \o improvement

Improvements == {<<"add", " ", "damping">>}

\* MatlabAIAgent(matlab_startup=matlab): with --matlab the engine starts or
\* fails to start, with --no-matlab it is never started
InitCli ==
    /\ matlab \in BOOLEAN
    /\ \E available \in BOOLEAN :
           /\ available => matlab
           /\ InitController(available)
    /\ pc = "start"
    /\ echoed = "none"
    /\ confirmed = FALSE
    /\ saved_file = NoFile
    /\ InitLearner
    /\ prompt_file = File(DefaultPrompt)
    /\ system_message = DefaultPrompt

\* lines 113-135: the first request and its generation
SessionStart ==
    /\ pc = "start"
    /\ \E user_prompt \in UserPrompts, api \in ApiOutcomes :
           /\ GenerateMatlabCode(user_prompt, FALSE, api)
           /\ conversation_history' =
                  WithMessage(WithMessage(conversation_history, "user", user_prompt),
                              "assistant", GeneratedReply(matlab_code'))
    /\ pc' = "menu"
    /\ echoed' = "MATLAB code generated:"
    /\ UNCHANGED <<mlint_results, simulation_results, engineVars, matlab,
                   confirmed, saved_file, learnerVars>>

\* action 1, lines 153-169 and 180-182, up to the confirmation prompt
ChooseValidate ==
    /\ pc = "menu"
    /\ IF ~is_available
       THEN /\ echoed' = "MATLAB Engine not available for validation."
            /\ UNCHANGED <<mlint_results, last_call, pc, traceVars>>
       ELSE /\ \E check \in CheckOutcomes : ValidateWithMlint(check)
            /\ IF mlint_results' # <<>>
               THEN /\ echoed' = "Issues found:"
                    /\ pc' = "confirm_validate"
               ELSE /\ echoed' = "No issues found!"
                    /\ pc' = "menu"
    /\ UNCHANGED <<conversation_history, matlab_code, simulation_results,
                   engineVars, api_calls, invocations, last_api, matlab,
                   confirmed, saved_file, learnerVars>>

\* lines 171-179: the answer to "Attempt to fix issues automatically?";
\* validation_results is the list validate_with_mlint returned
AnswerValidateFix(answer, api) ==
    /\ pc = "confirm_validate"
    /\ confirmed' = answer
    /\ IF answer
       THEN /\ FixCodeWithLlm(mlint_results, FALSE, api)
            /\ echoed' = "Updated code:"
       ELSE UNCHANGED <<matlab_code, callVars, echoed, traceVars>>
    /\ pc' = "menu"
    /\ UNCHANGED <<conversation_history, mlint_results, simulation_results,
                   engineVars, matlab, saved_file, learnerVars>>

\* action 2, lines 184-208, up to the confirmation prompt; an exception of
\* execute_simulation is caught by no handler of interactive and ends the
\* session at lines 339-342
ChooseExecute ==
    /\ pc = "menu"
    /\ IF ~is_available
       THEN /\ echoed' = "MATLAB Engine not available for execution."
            /\ UNCHANGED <<simulation_results, last_call, pc, traceVars>>
       ELSE /\ \E run \in RunOutcomes : ExecuteSimulation(FALSE, run)
            /\ echoed' = IF raised' THEN "An unexpected error occurred"
                         ELSE "result"
            /\ pc' = IF raised' THEN "crashed"
                     ELSE IF Get(simulation_results', "success", FALSE)
                     THEN "menu" ELSE "confirm_execute"
    /\ UNCHANGED <<conversation_history, matlab_code, mlint_results,
                   engineVars, api_calls, invocations, last_api, matlab,
                   confirmed, saved_file, learnerVars>>

\* lines 210-218: the answer to "Attempt to fix execution issues?"
AnswerExecuteFix(answer, api) ==
    LET error_msg == Get(simulation_results, "error", <<"Unknown error">>)
    IN /\ pc = "confirm_execute"
       /\ confirmed' = answer
       /\ IF answer
          THEN /\ FixCodeWithLlm(<<error_msg>>, FALSE, api)
               /\ echoed' = "Updated code:"
          ELSE UNCHANGED <<matlab_code, callVars, echoed, traceVars>>
       /\ pc' = "menu"
       /\ UNCHANGED <<conversation_history, mlint_results, simulation_results,
                      engineVars, matlab, saved_file, learnerVars>>

AnswerValidate ==
    \E answer \in BOOLEAN, api \in ApiOutcomes :
        /\ answer => invocations < MaxCalls
        /\ AnswerValidateFix(answer, api)

AnswerExecute ==
    \E answer \in BOOLEAN, api \in ApiOutcomes :
        /\ answer => invocations < MaxCalls
        /\ AnswerExecuteFix(answer, api)

\* action 3, lines 220-240
ChooseModify ==
    /\ pc = "menu"
    /\ invocations < MaxCalls
    /\ \E improvement \in Improvements, api \in ApiOutcomes :
           /\ GenerateMatlabCode(improvement, FALSE, api)
           /\ conversation_history' =
                  WithMessage(WithMessage(conversation_history, "user",
                                          ModifyRequest(improvement)),
                              "assistant", UpdatedReply(matlab_code'))
    /\ echoed' = "Updated code:"
    /\ UNCHANGED <<mlint_results, simulation_results, engineVars, pc, matlab,
                   confirmed, saved_file, learnerVars>>

\* action 4, lines 242-256: the file is written or open() fails
ChooseSave ==
    /\ pc = "menu"
    /\ \E written \in BOOLEAN :
           IF written
           THEN /\ saved_file' = File(matlab_code)
                /\ echoed' = "Code saved"
           ELSE /\ echoed' = "Failed to save"
                /\ UNCHANGED saved_file
    /\ UNCHANGED <<agentVars, engineVars, callVars, pc, matlab, confirmed,
                   learnerVars, traceVars>>

\* action 5, lines 258-270
ChooseExit ==
    /\ pc = "menu"
    /\ IF matlab /\ is_available THEN Shutdown ELSE UNCHANGED engineVars
    /\ pc' = "exited"
    /\ echoed' = "Thank you for using MATLAB AI Agent!"
    /\ UNCHANGED <<agentVars, callVars, matlab, confirmed, saved_file,
                   learnerVars, traceVars>>

\* lines 272-274
ChooseInvalid ==
    /\ pc = "menu"
    /\ echoed' = "Invalid choice. Please try again."
    /\ UNCHANGED <<agentVars, engineVars, callVars, pc, matlab, confirmed,
                   saved_file, learnerVars, traceVars>>

\* The execute command, lines 279-304, without the check of lines 291-294
ExecuteCommandLoadNoCheck ==
    /\ pc = "start"
    /\ matlab
    /\ \E read \in ReadOutcomes :
           IF read = "fails"
           THEN /\ echoed' = "Failed to read file"
                /\ pc' = "exit_1"
                /\ UNCHANGED matlab_code
           ELSE /\ \E code \in Codes : matlab_code' = code
                /\ echoed' = "Executing"
                /\ pc' = "loaded"
    /\ UNCHANGED <<conversation_history, mlint_results, simulation_results,
                   engineVars, callVars, matlab, confirmed, saved_file,
                   learnerVars, traceVars>>

\* The execute command, lines 279-304: MatlabAIAgent() tries to start the
\* engine; without it the command ends in sys.exit(1), as it does when the
\* file cannot be read; otherwise the file's text becomes the code
ExecuteCommandLoad ==
    /\ pc = "start"
    /\ matlab
    /\ IF ~is_available
       THEN /\ echoed' = "MATLAB Engine not available."
            /\ pc' = "exit_1"
            /\ UNCHANGED matlab_code
       ELSE \E read \in ReadOutcomes :
                IF read = "fails"
                THEN /\ echoed' = "Failed to read file"
                     /\ pc' = "exit_1"
                     /\ UNCHANGED matlab_code
                ELSE /\ \E code \in Codes : matlab_code' = code
                     /\ echoed' = "Executing"
                     /\ pc' = "loaded"
    /\ UNCHANGED <<conversation_history, mlint_results, simulation_results,
                   engineVars, callVars, matlab, confirmed, saved_file,
                   learnerVars, traceVars>>

\* The execute command, lines 306-314; an exception of execute_simulation
\* ends the command at lines 339-342
ExecuteCommandRun ==
    /\ pc = "loaded"
    /\ \E run \in RunOutcomes : ExecuteSimulation(FALSE, run)
    /\ echoed' = IF raised' THEN "An unexpected error occurred" ELSE "result"
    /\ pc' = IF raised' THEN "crashed" ELSE "exited"
    /\ UNCHANGED <<conversation_history, matlab_code, mlint_results,
                   engineVars, api_calls, invocations, last_api, matlab,
                   confirmed, saved_file, learnerVars>>

\* MatlabAIAgent.__del__ once interactive or execute has returned or was left
\* by an exception or by sys.exit
Destroy ==
    /\ pc \in {"exited", "crashed", "exit_1"}
    /\ Shutdown
    /\ pc' = "destroyed"
    /\ UNCHANGED <<agentVars, callVars, matlab, echoed, confirmed, saved_file,
                   learnerVars, traceVars>>

NextCli ==
    \/ SessionStart
    \/ ChooseValidate
    \/ AnswerValidate
    \/ ChooseExecute
    \/ AnswerExecute
    \/ ChooseModify
    \/ ChooseSave
    \/ ChooseExit
    \/ ChooseInvalid
    \/ ExecuteCommandLoad
    \/ ExecuteCommandRun
    \/ Destroy

SpecCli == InitCli /\ [][NextCli]_vars

(* The error learner called directly *)
InitLearnerOnly ==
    /\ InitController(FALSE)
    /\ pc = "learner"
    /\ matlab = FALSE
    /\ echoed = "none"
    /\ confirmed = FALSE
    /\ saved_file = NoFile
    /\ InitLearner
    /\ system_message = None

Learn ==
    /\ \E error_message \in ErrorMessages, codes \in CodePairs, io \in IoOutcomes :
           /\ LearnFromError(error_message, codes[2], codes[1], io)
           /\ last_call' = [op |-> "learn",
                            args |-> <<error_message, codes[2], codes[1]>>,
                            ret |-> <<>>]
    /\ UNCHANGED <<agentVars, engineVars, api_calls, invocations, last_api,
                   sessionVars, progress, eng_calls, last_run>>

NextLearner == Learn

SpecLearner == InitLearnerOnly /\ [][NextLearner]_vars

(* Sequential sessions on one PromptDocument and one Error History store:
   learning events, and the constructors run when a later session starts *)
SessionMessages ==
    {MsgUndefined, MsgAssertTrailing, MsgAssertTwoLines, MsgAssertCapital}

LearnInSession ==
    /\ pc = "learner"
    /\ \E error_message \in SessionMessages, codes \in CodePairs, io \in IoOutcomes :
           /\ LearnFromError(error_message, codes[2], codes[1], io)
           /\ last_call' = [op |-> "learn",
                            args |-> <<error_message, codes[2], codes[1]>>,
                            ret |-> <<>>]
    /\ UNCHANGED <<agentVars, engineVars, api_calls, invocations, last_api,
                   sessionVars, progress, eng_calls, last_run>>

\* a later session constructs its ErrorLearner: __init__ reads the store at
\* line 20; when the read raises, the constructor raises and the session has
\* no learner
NewErrorLearner ==
    /\ \E read \in ReadOutcomes :
           LET loaded == LoadErrorHistory(history_file, read)
           IN /\ raised' = loaded.raises
              /\ IF loaded.raises
                 THEN /\ pc' = "no_learner"
                      /\ UNCHANGED error_history
                 ELSE /\ pc' = "learner"
                      /\ error_history' = loaded.value
              /\ last_call' = [op |-> "load_history", args |-> <<read>>,
                               ret |-> <<>>]
    /\ UNCHANGED <<prompt_file, history_file, clock, learn_calls, learn_ret,
                   last_io, created, system_message>>
    /\ UNCHANGED <<agentVars, engineVars, api_calls, invocations, last_api,
                   matlab, echoed, confirmed, saved_file, progress, eng_calls,
                   last_run>>

\* a session constructs its LLMInterface: __init__ loads the system prompt
NewLLMInterface ==
    /\ LoadSystemPrompt
    /\ UNCHANGED <<history_file, error_history, clock, learn_calls, learn_ret,
                   last_io, created>>
    /\ UNCHANGED <<agentVars, engineVars, callVars, sessionVars, traceVars>>

NextSessions == LearnInSession \/ NewErrorLearner \/ NewLLMInterface

SpecSessions == InitLearnerOnly /\ [][NextSessions]_vars

(* One PromptDocument under sessions that generate code, each constructing
   its LLMInterface, while learning events rewrite the document *)
\* generate_matlab_code of a session whose LLMInterface was constructed
GenerateInSession ==
    /\ system_message # None
    /\ invocations < MaxCalls
    /\ \E prompt \in UserPrompts, api \in {ApiAnswers(ResponsePlain)} :
           GenerateMatlabCode(prompt, FALSE, api)
    /\ UNCHANGED <<conversation_history, mlint_results, simulation_results,
                   engineVars, sessionVars, learnerVars>>

NextPrompt == LearnInSession \/ NewLLMInterface \/ GenerateInSession

SpecPrompt == InitLearnerOnly /\ [][NextPrompt]_vars

(* The classifier and the synthesizer, reached through learn_from_error on a
   document that has no ERROR PREVENTION section yet, or that has the section
   written by four learning events of four categories *)
InitClassifier ==
    /\ InitController(FALSE)
    /\ pc = "learner"
    /\ matlab = FALSE
    /\ echoed = "none"
    /\ confirmed = FALSE
    /\ saved_file = NoFile
    /\ system_message = None
    /\ history_file = NoFile
    /\ error_history = EmptyHistory
    /\ clock = 0
    /\ learn_calls = 0
    /\ learn_ret = FALSE
    /\ last_io = "none"
    /\ created = <<>>
    /\ prompt_file \in
         {File(PromptWithoutSection),
          File(UpdateErrorPreventionSection(
                   PromptWithoutSection,
                   <<RuleArrayBounds, RuleDimensionMismatch, RuleTypeError,
                     RuleSyntaxError>>))}

LearnClassified ==
    /\ \E error_message \in ClassifierMessages, codes \in ClassifierCodePairs :
           /\ LearnFromError(error_message, codes[2], codes[1], "ok")
           /\ last_call' = [op |-> "learn",
                            args |-> <<error_message, codes[2], codes[1]>>,
                            ret |-> <<>>]
    /\ UNCHANGED <<agentVars, engineVars, api_calls, invocations, last_api,
                   sessionVars, progress, eng_calls, last_run>>

NextClassifier == LearnClassified

SpecClassifier == InitClassifier /\ [][NextClassifier]_vars

(* ---------------------------------------------------------------------- *)
(* Claims                                                                  *)
(* ---------------------------------------------------------------------- *)
\* a validation result that reports at least one issue
ReportsIssues(results) == results # <<>> /\ results # <<NoIssuesFound>>

\* C1: when validation returns exactly ["No issues found."], no issues are
\* reported, repair is not offered, and no fix is requested for that list.
C1_SentinelIsNoIssue ==
    /\ (last_call.op = "validate" /\ mlint_results = <<NoIssuesFound>>)
           => (pc # "confirm_validate" /\ echoed # "Issues found:")
    /\ last_call.op = "fix" => last_call.args # <<NoIssuesFound>>

\* C2: every repair with a non-empty error list appends one ErrorRecord per
\* error to the Error History, with code-before the CodeArtifact prior to the
\* repair and code-after the fix result.
C2_RepairLearns ==
    [][api_calls'.fix # api_calls.fix =>
          LET before == Len(error_history.errors)
              errors == last_call'.args
          IN /\ Len(error_history'.errors) = before + Len(errors)
             /\ \A i \in 1..Len(errors) :
                    /\ error_history'.errors[before + i].error_message = errors[i]
                    /\ error_history'.errors[before + i].original_code = matlab_code
                    /\ error_history'.errors[before + i].fixed_code = matlab_code']_vars

\* C3: in the interactive session fix_code_with_llm is invoked only directly
\* after a validation that reported issues or an execution that failed, and
\* only if the user confirmed; when the user declines, no fix call is made
\* and the CodeArtifact is unchanged.
C3_FixOnlyAfterIssuesAndConfirm ==
    /\ [](pc = "confirm_validate"
            => (last_call.op = "validate" /\ ReportsIssues(mlint_results)))
    /\ [](pc = "confirm_execute"
            => (last_call.op = "execute"
                /\ ~Get(simulation_results, "success", FALSE)))
    /\ [][(last_call'.op = "fix" /\ invocations' # invocations)
            => (pc \in {"confirm_validate", "confirm_execute"} /\ confirmed')]_vars
    /\ [][(pc \in {"confirm_validate", "confirm_execute"} /\ ~confirmed')
            => UNCHANGED <<matlab_code, invocations, api_calls>>]_vars

\* C4: fix_code_with_llm called with an empty error list returns the current
\* CodeArtifact, leaves it unchanged and makes no collaborator call, in every
\* agent state.
C4_EmptyFixIsNoOp ==
    [][(invocations' # invocations /\ last_call'.op = "fix"
        /\ last_call'.args = <<>>)
          => /\ last_call'.ret = matlab_code
             /\ matlab_code' = matlab_code
             /\ api_calls' = api_calls]_vars

\* C4 witness: an empty fix was made on an agent that holds code
C4_Witness ==
    /\ last_call.op = "fix"
    /\ last_call.args = <<>>
    /\ matlab_code # <<>>
    /\ api_calls.generate > 0

\* C5 as stated: the CodeArtifact equals the result of the most recent
\* generation or non-empty fix, and once a first generation has occurred it is
\* never empty.
C5_NeverEmptyAfterGeneration ==
    /\ api_calls.generate + api_calls.fix > 0 => matlab_code = last_api.returned
    /\ api_calls.generate > 0 => matlab_code # <<>>

\* C6: if the collaborator call raises during generate_matlab_code or
\* fix_code_with_llm, the CodeArtifact after the call equals its value before.
C6_RaisePreservesCode ==
    [][(api_calls' # api_calls /\ last_api'.raised) => matlab_code' = matlab_code]_vars

\* the rule lines of the ERROR PREVENTION section: its lines, stripped
SectionLines(prompt) ==
    StripNonEmpty(Split(ExtractErrorPreventionSection(prompt), <<"\n">>))

\* C7: starting from a section without duplicates, after any sequence of
\* learn_from_error calls the section contains every rule text exactly once.
C7_NoDuplicateRules ==
    prompt_file.exists => NoDuplicates(SectionLines(prompt_file.content))

\* the message of the last record of a history
LastMessage(history) == history.errors[Len(history.errors)].error_message

\* C8: applying the update a second time with the same new rule yields the
\* same PromptDocument text as applying it once.
C8_UpdateIdempotent ==
    [][(learn_calls' # learn_calls /\ learn_calls > 0 /\ learn_ret
        /\ LastMessage(error_history') = LastMessage(error_history))
          => prompt_file' = prompt_file]_vars

\* the text before the section header, and the text from the section's end
TextBeforeSection(prompt) == SubSeq(prompt, 1, HeaderPos(prompt, 1) - 1)
TextAfterSection(prompt) ==
    DropFirst(prompt, SectionEnd(prompt, HeaderPos(prompt, 1) + 1) - 1)

\* C9: a prevention-section update leaves the text before the section and
\* the text after it unchanged, the rebuilt section standing between them.
C9_UpdateKeepsRestInPlace ==
    [][(learn_calls' # learn_calls /\ learn_ret'
        /\ HeaderPos(prompt_file.content, 1) # 0)
          => /\ TextBeforeSection(prompt_file'.content)
                    = TextBeforeSection(prompt_file.content)
             /\ TextAfterSection(prompt_file'.content)
                    = TextAfterSection(prompt_file.content)]_vars

\* C10: learn_from_error returns True exactly when the call changed the
\* persisted PromptDocument; whenever it returns False the document is
\* identical to its content before the call.
C10_ReturnTellsChange ==
    [][learn_calls' # learn_calls
          => (learn_ret' <=> prompt_file' # prompt_file)]_vars

\* the record appended by the last learn_from_error call, and its rule
LastRecord(history) == history.errors[Len(history.errors)]
LastRule(history) == GeneratePreventionRule(LastRecord(history))

\* the lines a rule text takes in the section
RuleLines(rule) == StripNonEmpty(Split(Strip(rule), <<"\n">>))

\* the rule text stands on the lines of the ERROR PREVENTION section
RulePresent(rule, prompt) ==
    FindSub(SectionLines(prompt), RuleLines(rule), 1) # 0

\* C11: a learning event (on an existing PromptDocument, no file operation
\* failing) modifies the PromptDocument if and only if a rule was synthesized
\* and that rule text is not already present in the ERROR PREVENTION section;
\* otherwise the document is unchanged.
C11_ModifiedIffNewRule ==
    [][(learn_calls' # learn_calls /\ prompt_file.exists
        /\ last_io' \in {"none", "ok"})
          => ((prompt_file' # prompt_file)
                <=> (/\ LastRule(error_history') # None
                     /\ ~RulePresent(LastRule(error_history'),
                                     prompt_file.content)))]_vars

\* C12: after every learn_from_error call (the history write itself not
\* failing) the persisted store holds the full in-memory history, the new
\* record and the new last-update value included, whether or not a rule was
\* synthesized, was a duplicate, or the prompt update succeeded.
C12_HistoryPersisted ==
    [][(learn_calls' # learn_calls /\ last_io' # "history_write_fails")
          => history_file' = File(error_history')]_vars

\* a is an initial part of b
IsPrefix(a, b) == Len(a) <= Len(b) /\ SubSeq(b, 1, Len(a)) = a

\* C13: the Error History is append-only: a record created by a learning
\* event keeps its position and fields in the in-memory history for the rest
\* of the session, and every later version of the persisted store holds every
\* record created so far at its position.
C13_AppendOnly ==
    [][/\ learn_calls' # learn_calls
            => IsPrefix(error_history.errors, error_history'.errors)
       /\ history_file' # history_file
            => IsPrefix(created', history_file'.content.errors)]_vars

\* C14: each call learn_from_error(msg, fixed, orig) appends exactly one
\* record to the history, with error_message = msg, error_type =
\* classify(msg) (array_bounds for 'Index exceeds matrix dimensions'),
\* original_code = orig and fixed_code = fixed, whatever the call returns.
C14_OneRecordPerCall ==
    [][learn_calls' # learn_calls
          => /\ Len(error_history'.errors) = Len(error_history.errors) + 1
             /\ IsPrefix(error_history.errors, error_history'.errors)
             /\ LET record == LastRecord(error_history')
                    msg == last_call'.args[1]
                IN /\ record.error_message = msg
                   /\ record.error_type = ClassifyError(msg)
                   /\ msg = MsgIndex => record.error_type = "array_bounds"
                   /\ record.fixed_code = last_call'.args[2]
                   /\ record.original_code = last_call'.args[3]]_vars

\* C14 witness: a second call, with 'Index exceeds matrix dimensions', that
\* returned False and still left its record at the end of the history
C14_Witness ==
    /\ last_call.op = "learn"
    /\ last_call.args = <<MsgIndex, CodeY, CodeX>>
    /\ ~learn_ret
    /\ Len(error_history.errors) = 2
    /\ LastRecord(error_history).error_type = "array_bounds"
    /\ LastRecord(error_history).original_code = CodeX
    /\ LastRecord(error_history).fixed_code = CodeY

\* C15: when a learning event adds a rule, the rule lines of section 8
\* afterwards (read without indentation and edge whitespace) are the previous
\* rule lines in their original order followed by exactly one new line, the
\* new rule.
C15_RuleAppendedLast ==
    [][(learn_calls' # learn_calls /\ prompt_file' # prompt_file)
          => SectionLines(prompt_file'.content)
                 = Append(SectionLines(prompt_file.content),
                          Strip(LastRule(error_history')))]_vars

\* the rules learn_from_error can synthesize from the messages it is given
LearnableRules ==
    {Strip(GeneratePreventionRule(ErrorInfo(0, m, CodeY, CodeX))) :
        m \in ErrorMessages} \ {None}

\* C16: a rule added to the PromptDocument by a learning event (its text
\* without edge whitespace) is in the system prompt loaded at the start of
\* any later session: the event writes the rule into the document, only
\* learning events rewrite an existing document and they take no learned rule
\* out of it, and loading the system prompt of an existing document returns
\* its content.
C16_LearnedRuleLoadedLater ==
    [][/\ (learn_calls' # learn_calls /\ prompt_file' # prompt_file)
            => Contains(prompt_file'.content, Strip(LastRule(error_history')))
       /\ (prompt_file.exists /\ prompt_file' # prompt_file)
            => /\ prompt_file'.exists
               /\ learn_calls' # learn_calls
               /\ \A rule \in LearnableRules :
                      Contains(prompt_file.content, rule)
                          => Contains(prompt_file'.content, rule)
       /\ (learn_calls' = learn_calls /\ error_history' = error_history
           /\ last_call' = last_call /\ prompt_file.exists)
            => system_message' = prompt_file.content]_vars

\* C16 witness: a session started after 'assert failed ' was learned on the
\* document that held one rule; its system prompt holds both rules
C16_Witness ==
    /\ learn_calls > 0
    /\ prompt_file.exists
    /\ system_message = prompt_file.content
    /\ SectionLines(system_message) = <<RuleTypeError, AssertRulePrefix \o MsgAssert>>
    /\ last_call.args[1] = MsgAssertTrailing

\* the six categories _classify_error can return
Categories ==
    {NamedCategories[i] : i \in 1..Len(NamedCategories)} \cup {"other"}

\* C17: classify is total and deterministic: every message maps to exactly
\* one of the six categories, the same one each time, a message passing the
\* test of no keyword group maps to other, and classifying leaves the message
\* it was given as it is.
C17_ClassifyTotal ==
    /\ \A i \in 1..Len(created) :
           /\ created[i].error_type \in Categories
           /\ FirstMatch(LowerText(created[i].error_message), NamedCategories,
                         "none") = "none"
                  => created[i].error_type = "other"
           /\ \A j \in 1..Len(created) :
                  created[j].error_message = created[i].error_message
                      => created[j].error_type = created[i].error_type
    /\ last_call.op = "learn"
           => created[Len(created)].error_message = last_call.args[1]

\* C17 witness: a message without keyword was classified other, after a
\* message holding the syntax keyword
C17_Witness ==
    /\ Len(created) = 2
    /\ created[1].error_message = MsgSyntax
    /\ created[1].error_type = "syntax_error"
    /\ created[2].error_message = MsgOther
    /\ created[2].error_type = "other"

\* C18: every message that contains 'index' and 'bounds', in any letter case
\* and whatever other keywords it holds, is classified array_bounds.
C18_IndexBoundsIsArrayBounds ==
    \A i \in 1..Len(created) :
        (/\ Contains(LowerText(created[i].error_message), <<"index">>)
         /\ Contains(LowerText(created[i].error_message), <<"bounds">>))
            => created[i].error_type = "array_bounds"

\* C18 witness: 'Undefined size: Index out of BOUNDS' was classified
C18_Witness ==
    /\ Len(created) > 0
    /\ created[Len(created)].error_message = MsgIndexBounds
    /\ created[Len(created)].error_type = "array_bounds"

\* C19: a message passing the tests of several keyword groups is classified
\* as the earliest of them in the order array_bounds, dimension_mismatch,
\* type_error, undefined_variable, syntax_error (array_bounds being tested as
\* 'index' together with 'exceeds' or 'bounds').
C19_FirstMatchWins ==
    \A i \in 1..Len(created) :
        LET m == LowerText(created[i].error_message)
            hits == {k \in 1..Len(NamedCategories) : Matches(NamedCategories[k], m)}
        IN hits # {}
             => \E k \in hits :
                    /\ \A j \in hits : k <= j
                    /\ created[i].error_type = NamedCategories[k]

\* C19 witness: messages passing two tests each were classified: undefined
\* and type gave type_error, not found and syntax gave undefined_variable
C19_Witness ==
    /\ Len(created) = 2
    /\ created[1].error_message = MsgUndefinedType
    /\ created[1].error_type = "type_error"
    /\ created[2].error_message = MsgNotFoundSyntax
    /\ created[2].error_type = "undefined_variable"

\* C20: for the five named categories rule synthesis depends on the category
\* only: two records of the same category give the same rule text, whatever
\* their messages and code fields.
C20_RuleDependsOnCategoryOnly ==
    \A i, j \in 1..Len(created) :
        (/\ created[i].error_type = created[j].error_type
         /\ created[i].error_type # "other")
            => /\ GeneratePreventionRule(created[i]) # None
               /\ GeneratePreventionRule(created[i])
                      = GeneratePreventionRule(created[j])

\* C20 witness: two array_bounds records that differ in message and code
C20_Witness ==
    /\ Len(created) = 2
    /\ created[1].error_type = "array_bounds"
    /\ created[2].error_type = "array_bounds"
    /\ created[1].error_message # created[2].error_message
    /\ created[1].original_code # created[2].original_code

\* C21: for a record of category other, synthesis returns the rule embedding
\* the raw message whenever the message contains 'assert' in any letter case,
\* and nothing otherwise; returning nothing makes the call return False and
\* leaves the PromptDocument unchanged.
C21_AssertHeuristicAnyCase ==
    [][learn_calls' # learn_calls
          => LET record == LastRecord(error_history')
                 rule == GeneratePreventionRule(record)
             IN record.error_type = "other"
                  => /\ Contains(LowerText(record.error_message), <<"assert">>)
                          => rule = AssertRulePrefix \o record.error_message
                     /\ ~Contains(LowerText(record.error_message), <<"assert">>)
                          => rule = None
                     /\ rule = None
                          => (prompt_file' = prompt_file /\ ~learn_ret')]_vars

\* C22: on an engine that is not available, validate_code returns
\* ["MATLAB Engine not available."] and execute_code returns that message
\* with a result of success False and an error text, neither raises nor calls
\* a method of the engine handle, and generation and fix still call the
\* collaborator and return its code.
C22_UnavailableEngineFailsSoftly ==
    ~is_available
      => /\ ~raised
         /\ eng_calls = <<>>
         /\ last_call.op = "validate"
              => /\ last_call.ret = <<EngineNotAvailable>>
                 /\ mlint_results = <<EngineNotAvailable>>
         /\ last_call.op = "execute"
              => /\ last_call.ret = EngineNotAvailable
                 /\ simulation_results.success = FALSE
                 /\ simulation_results.error = EngineNotAvailable
         /\ last_call.op = "generate"
              => /\ api_calls.generate > 0
                 /\ last_call.ret = last_api.returned
                 /\ matlab_code = last_api.returned
         /\ (last_call.op = "fix" /\ last_call.args # <<>>)
              => /\ api_calls.fix > 0
                 /\ last_call.ret = last_api.returned
                 /\ matlab_code = last_api.returned

\* C22 witness: without an engine, validation and execution have failed and
\* the code generated before was then fixed by the collaborator
C22_Witness ==
    /\ ~is_available
    /\ mlint_results = <<EngineNotAvailable>>
    /\ simulation_results # <<>>
    /\ api_calls.generate = 1
    /\ last_call.op = "fix"
    /\ last_call.args = <<MsgIndex>>
    /\ ~last_api.raised
    /\ matlab_code = <<"x">>

\* C23: execute_code never raises: an exception met while preparing the run
\* (creating the results directory included), writing the script or
\* evaluating it becomes a returned pair whose message starts with 'Error:'
\* and whose result has success False and the error text.
C23_ExecuteNeverRaises ==
    last_call.op = "execute"
      => /\ ~raised
         /\ last_run.raises
              => /\ StartsWith(last_call.ret, <<"Error:">>)
                 /\ simulation_results.success = FALSE
                 /\ simulation_results.error = last_run.error_msg

\* C24: in a session started with the engine available, from the start
\* through the exit action and the destruction of the agent, quit is invoked
\* on the engine handle exactly once.
C24_QuitExactlyOnce ==
    (/\ pc = "destroyed"
     /\ is_available
     /\ echoed = "Thank you for using MATLAB AI Agent!")
      => quit_calls = 1

\* C25: shutdown invokes quit only on a live engine, one that was started and
\* not yet shut down; on a never-started, unavailable or already shut down
\* engine it calls no quit.
C25_ShutdownIdempotent ==
    [][quit_calls' # quit_calls => (is_available /\ quit_calls = 0)]_vars

NonDecreasing(values) ==
    \A i \in 1..(Len(values) - 1) : values[i] <= values[i + 1]

\* C26: within one generate_code, fix_code or execute_code call, on every
\* path, the values passed to the progress callback are non-decreasing and
\* each lies in 0..100.
C26_ProgressMonotone ==
    /\ NonDecreasing(progress)
    /\ \A i \in 1..Len(progress) : progress[i] \in 0..100

\* C26 witness: an execution whose eng.eval raised, after a fix whose
\* collaborator call raised, both reporting to a callback
C26_Witness ==
    /\ last_call.op = "execute"
    /\ last_run.stage = "eval"
    /\ progress = <<5, 10, 15, 20, 100>>
    /\ api_calls.fix = 1
    /\ last_api.raised

\* C27: in an interactive session every code generation, the first one and
\* each modify request, appends exactly two turns: a user turn holding the
\* request, then an assistant turn holding the generated code in a code
\* block; no step removes, reorders or rewrites a turn.
C27_ConversationGrowsByTwo ==
    [][/\ IsPrefix(conversation_history, conversation_history')
       /\ api_calls'.generate # api_calls.generate
            => LET n == Len(conversation_history)
               IN /\ Len(conversation_history') = n + 2
                  /\ conversation_history'[n + 1].role = "user"
                  /\ Contains(conversation_history'[n + 1].content,
                              last_call'.args)
                  /\ conversation_history'[n + 2].role = "assistant"
                  /\ Contains(conversation_history'[n + 2].content,
                              CodeBlock(matlab_code'))]_vars

\* C27 witness: a modify request was answered after the first generation and
\* the conversation holds the four turns in order
C27_Witness ==
    /\ Len(conversation_history) = 4
    /\ conversation_history[1] = Turn("user", <<"pendulum">>)
    /\ conversation_history[2].role = "assistant"
    /\ conversation_history[3] =
           Turn("user", ModifyRequest(<<"add", " ", "damping">>))
    /\ conversation_history[4] = Turn("assistant", UpdatedReply(matlab_code))
    /\ conversation_history[2].content # GeneratedReply(matlab_code)

\* C28: learn_from_error never raises, whatever the message and whatever
\* fails while the PromptDocument is read or written or the Error History is
\* written; a call that met such a failure returns False.
C28_LearnNeverRaises ==
    [][learn_calls' # learn_calls
          => /\ ~raised'
             /\ (\/ last_io' \in {"prompt_read_fails", "prompt_write_fails",
                                  "history_write_fails"}
                 \/ (LastRule(error_history') # None /\ ~prompt_file.exists))
                  => ~learn_ret']_vars

\* C28 witness: after a call that added a rule, a call whose history write
\* failed returned False without raising
C28_Witness ==
    /\ learn_calls = 2
    /\ last_call.op = "learn"
    /\ last_io = "history_write_fails"
    /\ ~raised
    /\ ~learn_ret
    /\ history_file.exists
    /\ Len(history_file.content.errors) = 1
    /\ Len(error_history.errors) = 2

\* C29: loading the Error History: when no persisted store exists the loaded
\* history is the empty sequence with no last-update value; when the store
\* exists and cannot be read or parsed, the failure is raised to the caller
\* and no history, empty or other, is loaded in its place; a readable store
\* is loaded as it is.
C29_LoadMissingOrRaise ==
    last_call.op = "load_history"
      => /\ ~history_file.exists
              => /\ ~raised
                 /\ pc = "learner"
                 /\ error_history = [errors |-> <<>>, last_update |-> None]
         /\ (history_file.exists /\ last_call.args = <<"fails">>)
              => /\ raised
                 /\ pc = "no_learner"
         /\ (history_file.exists /\ last_call.args = <<"ok">>)
              => /\ ~raised
                 /\ pc = "learner"
                 /\ error_history = history_file.content

\* C29 witness: a session started on a store that holds a record and could
\* not be read: the constructor raised
C29_Witness ==
    /\ last_call.op = "load_history"
    /\ last_call.args = <<"fails">>
    /\ history_file.exists
    /\ Len(history_file.content.errors) > 0
    /\ raised
    /\ pc = "no_learner"

\* a text without its leading ``` or ```matlab marker and its trailing ```
\* marker, trimmed
Unfenced(text) ==
    LET body == IF StartsWith(text, FenceMatlab)
                THEN DropFirst(text, Len(FenceMatlab))
                ELSE IF StartsWith(text, Fence) THEN DropFirst(text, Len(Fence))
                ELSE text
    IN Strip(IF EndsWith(body, Fence) THEN DropLast(body, Len(Fence)) ELSE body)

\* C30: the text generate_code and fix_code return for an answer of the
\* collaborator has the code-fence wrapping removed: it holds no fence, a
\* leading ``` or ```matlab marker and a trailing ``` marker are stripped
\* and no character of the code is dropped, and an answer without fence is
\* returned trimmed.
C30_FenceStripped ==
    (api_calls.generate + api_calls.fix > 0 /\ ~last_api.raised)
      => /\ last_api.returned = Unfenced(Strip(last_api.content))
         /\ ~Contains(last_api.returned, Fence)

\* C31: when the PromptDocument has no ERROR PREVENTION section, a learning
\* event with a synthesized rule (the document written) creates the section
\* at the end of the document, holding that rule and nothing else, and the
\* text of the document before the call stands unchanged in front of it.
C31_SectionCreatedAtEnd ==
    [][(learn_calls' # learn_calls /\ prompt_file.exists
        /\ HeaderPos(prompt_file.content, 1) = 0
        /\ LastRule(error_history') # None
        /\ last_io' \in {"ok", "history_write_fails"})
          => /\ prompt_file'.exists
             /\ HeaderPos(prompt_file'.content, 1) # 0
             /\ Strip(TextBeforeSection(prompt_file'.content))
                    = Strip(prompt_file.content)
             /\ Strip(TextAfterSection(prompt_file'.content)) = <<>>
             /\ SectionLines(prompt_file'.content)
                    = RuleLines(LastRule(error_history'))]_vars

\* a first learning event has created the section behind the text of a
\* document that had none
C31_Witness ==
    /\ learn_calls = 1 /\ learn_ret /\ prompt_file.exists
    /\ Strip(TextBeforeSection(prompt_file.content)) = Strip(PromptWithoutSection)
    /\ Strip(TextAfterSection(prompt_file.content)) = <<>>
    /\ SectionLines(prompt_file.content) = <<RuleUndefinedVariable>>

\* C32: validate_code never returns an empty list: with the engine
\* unavailable, with empty code, when the checker raises, reports nothing or
\* reports findings, the list holds at least one non-empty text; 'No issues
\* found.' is the only entry when the checker reports nothing; the findings
\* are returned one entry per finding, in the checker's order, repeated
\* findings included.
C32_ValidateNeverEmpty ==
    last_call.op = "validate"
      => /\ mlint_results # <<>>
         /\ last_call.ret = mlint_results
         /\ \A i \in 1..Len(mlint_results) : mlint_results[i] # <<>>
         /\ InList(NoIssuesFound, mlint_results)
              => mlint_results = <<NoIssuesFound>>
         /\ (last_run.stage = "checkcode" /\ ~last_run.raises)
              => IF last_run.messages = <<>>
                 THEN mlint_results = <<NoIssuesFound>>
                 ELSE /\ Len(mlint_results) = Len(last_run.messages)
                      /\ \A i \in 1..Len(mlint_results) :
                             mlint_results[i] = FormatFinding(last_run.messages[i])

\* the checker reported a finding twice, another one between the two, and the
\* three entries were returned in that order
C32_Witness ==
    /\ last_call.op = "validate"
    /\ last_run.stage = "checkcode"
    /\ last_run.messages = <<FindingUndefined, FindingUnused, FindingUndefined>>
    /\ mlint_results
         = <<MsgUndefined, FormatFinding(FindingUnused), MsgUndefined>>

\* C33: while the engine is unavailable neither the interactive session nor
\* the execute command calls validation or execution on the agent: choosing
\* validation or execution in the menu leaves the agent and the engine as
\* they were and returns to the menu, and the execute command ends with
\* exit status 1 without loading or executing anything.
C33_NoEngineNoCall ==
    /\ [](~is_available
            => (last_call.op \notin {"validate", "execute"} /\ eng_calls = <<>>))
    /\ [][(/\ ~is_available
           /\ pc = "menu"
           /\ echoed' \in {"MATLAB Engine not available for validation.",
                            "MATLAB Engine not available for execution."})
             => (pc' = "menu"
                 /\ UNCHANGED <<agentVars, engineVars, callVars, traceVars>>)]_vars
    /\ [][(~is_available /\ pc = "start" /\ pc' \notin {"start", "menu"})
             => (pc' = "exit_1"
                 /\ echoed' = "MATLAB Engine not available."
                 /\ UNCHANGED <<agentVars, engineVars, callVars, traceVars>>)]_vars

\* the execute command has ended with exit status 1 on an engine that did not
\* start, nothing having been executed
C33_Witness ==
    /\ pc = "exit_1"
    /\ ~is_available
    /\ echoed = "MATLAB Engine not available."
    /\ last_call.op = "init"

\* C34: every generate_code, fix_code or execute_code call that was given a
\* progress callback has reported 100 as its last value when control leaves
\* the call, on success and on every failure path.
C34_ProgressEndsAt100 ==
    (last_call.op \in {"generate", "fix", "execute"} /\ progress # <<>>)
      => progress[Len(progress)] = 100

\* C35: once shutdown has been called on a started engine, validate_code and
\* execute_code call no method of the engine handle any more and report the
\* engine as unavailable.
C35_NoCallAfterShutdown ==
    (quit_calls > 0 /\ last_call.op \in {"validate", "execute"})
      => /\ eng_calls = <<>>
         /\ ~raised
         /\ last_call.op = "validate" => mlint_results = <<EngineNotAvailable>>
         /\ last_call.op = "execute"
              => /\ last_call.ret = EngineNotAvailable
                 /\ simulation_results.success = FALSE
                 /\ simulation_results.error = EngineNotAvailable

C37_ControllerFrame ==
    [][/\ last_call'.op \in {"validate", "execute"}
            => UNCHANGED <<matlab_code, conversation_history>>
       /\ last_call'.op \in {"generate", "fix"}
            => UNCHANGED conversation_history
       /\ conversation_history' # conversation_history
            => last_call'.op = "add_message"
       /\ matlab_code' # matlab_code
            => \/ last_call'.op = "generate"
               \/ (last_call'.op = "fix" /\ last_call'.args # <<>>)]_vars

\* a fix with a non-empty error list has replaced the generated code, after a
\* validation and an execution, the conversation holding its one turn
C37_Witness ==
    /\ last_call.op = "fix"
    /\ last_call.args # <<>>
    /\ api_calls.generate = 1
    /\ matlab_code # last_api.content
    /\ matlab_code = <<"x">>
    /\ Len(conversation_history) = 1
    /\ mlint_results # <<>>
    /\ simulation_results # <<>>

\* the rules of the five named categories
CanonicalRules ==
    {RuleArrayBounds, RuleDimensionMismatch, RuleTypeError,
     RuleUndefinedVariable, RuleSyntaxError}

\* C38: bounded rule growth: for messages of the five named categories
\* learn_from_error returns True only when the category's rule was not in the
\* section and is in it afterwards, a rule that is in the section stays in
\* it, and the section never holds a rule twice; so True is returned at most
\* once per category and the section holds at most five rules, those of
\* messages of category other not counted.
C38_BoundedRuleGrowth ==
    /\ [](prompt_file.exists
            => /\ NoDuplicates(SectionLines(prompt_file.content))
               /\ Len(SectionLines(prompt_file.content))
                    <= 5 + Cardinality({i \in 1..Len(created) :
                                          created[i].error_type = "other"}))
    /\ [][(learn_calls' # learn_calls /\ learn_ret'
           /\ LastRecord(error_history').error_type # "other")
             => /\ LastRule(error_history') \in CanonicalRules
                /\ ~RulePresent(LastRule(error_history'), prompt_file.content)
                /\ RulePresent(LastRule(error_history'), prompt_file'.content)
                /\ Len(SectionLines(prompt_file'.content))
                      = Len(SectionLines(prompt_file.content)) + 1]_vars
    /\ [][\A rule \in CanonicalRules :
             (prompt_file.exists /\ RulePresent(rule, prompt_file.content))
               => (prompt_file'.exists
                   /\ RulePresent(rule, prompt_file'.content))]_vars
    /\ [][(learn_calls' # learn_calls /\ learn_calls > 0 /\ learn_ret
           /\ LastRecord(error_history).error_type # "other"
           /\ LastRecord(error_history').error_type
                = LastRecord(error_history).error_type)
             => ~learn_ret']_vars

\* two learning events of one category, with different messages, on a
\* section of four rules: the first returned True, the second False, and the
\* section holds the five rules
C38_Witness ==
    /\ learn_calls = 2
    /\ ~learn_ret
    /\ error_history.errors[1].error_type = "undefined_variable"
    /\ error_history.errors[2].error_type = "undefined_variable"
    /\ error_history.errors[1].error_message
         # error_history.errors[2].error_message
    /\ SectionLines(prompt_file.content)
         = <<RuleArrayBounds, RuleDimensionMismatch, RuleTypeError,
             RuleSyntaxError, RuleUndefinedVariable>>

\* C39: the system prompt sent with every generation request of a session is
\* the PromptDocument content read when the session's generation interface
\* was constructed: only the construction sets it, to the document's content
\* at that moment; a generation request sends it and leaves it as it is; a
\* learning event, rewriting the document or not, leaves it as it is.
C39_SystemPromptReadOnce ==
    /\ [][system_message' # system_message
            => /\ api_calls' = api_calls
               /\ learn_calls' = learn_calls
               /\ system_message' = prompt_file'.content]_vars
    /\ [][api_calls'.generate # api_calls.generate
            => /\ last_api'.system = system_message
               /\ system_message' = system_message]_vars
    /\ [][learn_calls' # learn_calls
            => system_message' = system_message]_vars

\* a second generation request of a session sent the system prompt of the
\* first one, after a learning event had rewritten the document
C39_Witness ==
    /\ api_calls.generate = 2
    /\ learn_calls = 1
    /\ learn_ret
    /\ last_api.system = system_message
    /\ prompt_file.exists
    /\ prompt_file.content # system_message
    /\ RulePresent(RuleUndefinedVariable, prompt_file.content)
    /\ ~RulePresent(RuleUndefinedVariable, last_api.system)
====
